---- MODULE Spec2Model ----
(***************************************************************************)
(* docker-captain: discovery of Docker Compose projects, the persisted     *)
(* active-project list, the compose runner and the command layer.          *)
(*                                                                         *)
(* Four specifications share the variables below:                          *)
(*   SpecFile      CaptainFile.load / CaptainFile.save on one YAML file    *)
(*   SpecDiscover  discover_projects on a directory tree                   *)
(*   SpecStartup   the module-level start-up of main.py                    *)
(*   Spec          the commands list, manage, start, stop, restart, rally, *)
(*                 abandon, run one after the other on a persisted data    *)
(*                 file and a projects folder                              *)
(***************************************************************************)
EXTENDS Integers, Sequences, FiniteSets, TLC

\* ------------------------------------------------------------------ bounds

\* Number of distinct directory / project names in the model.
NumNames == 2
\* Largest non-zero exit code the external compose process reports.
MaxRc == 2
\* Longest recent_files / active_projects list drawn as a record to save.
MaxList == 2

\* Names in lexicographic order; "no" is a name YAML would read as a boolean.
NamePool == <<"app", "no", "web", "xa", "xb", "xc">>
Names == {NamePool[i] : i \in 1..NumNames}
Rank(n) == CHOOSE i \in 1..Len(NamePool) : NamePool[i] = n

\* ------------------------------------------------------- python values

Str(s) == [ty |-> "str", s |-> s, items |-> <<>>]
Bool(b) == [ty |-> "bool", s |-> IF b THEN "True" ELSE "False", items |-> <<>>]
IntV(text) == [ty |-> "int", s |-> text, items |-> <<>>]
NoneV == [ty |-> "none", s |-> "", items |-> <<>>]
PathV(s) == [ty |-> "path", s |-> s, items |-> <<>>]
ListV(xs) == [ty |-> "list", s |-> "", items |-> xs]

\* bool(value) of a non-dict value, as `data or {}` evaluates it.
Truthy(v) ==
    CASE v.ty = "none" -> FALSE
      [] v.ty = "bool" -> v.s = "True"
      [] v.ty = "int" -> v.s # "0"
      [] v.ty = "str" -> v.s # ""
      [] v.ty = "list" -> v.items # <<>>
      [] OTHER -> TRUE

\* ------------------------------------------------------------- YAML text

\* The implicit resolver of YAML 1.1 on a plain scalar.
YamlTrue == {"true", "True", "yes", "on"}
YamlFalse == {"false", "False", "no", "off"}
YamlNull == {"null", "~", ""}
YamlInt == {"0", "7"}
ResolvePlain(text) ==
    CASE text \in YamlTrue \cup YamlFalse -> "bool"
      [] text \in YamlNull -> "null"
      [] text \in YamlInt -> "int"
      [] OTHER -> "str"

Scalar(style, text) == [t |-> "scalar", style |-> style, text |-> text, items |-> <<>>]
SeqNode(xs) == [t |-> "seq", style |-> "", text |-> "", items |-> xs]

\* What SafeRepresenter can represent: str, bool, int, None and lists of
\* them.  A pathlib.Path has no representer (RepresenterError).
Representable(v) ==
    /\ v.ty # "path"
    /\ \A i \in 1..Len(v.items) : v.items[i].ty # "path"

\* yaml.safe_dump of one scalar: a str is written plain only when the
\* implicit resolver reads the plain text back as a str, quoted otherwise.
DumpScalar(v) ==
    CASE v.ty = "str" ->
            Scalar(IF ResolvePlain(v.s) = "str" THEN "plain" ELSE "quoted", v.s)
      [] v.ty = "bool" -> Scalar("plain", IF v.s = "True" THEN "true" ELSE "false")
      [] v.ty = "int" -> Scalar("plain", v.s)
      [] OTHER -> Scalar("plain", "null")

DumpNode(v) ==
    IF v.ty = "list"
    THEN SeqNode([i \in 1..Len(v.items) |-> DumpScalar(v.items[i])])
    ELSE DumpScalar(v)

\* yaml.safe_load of one scalar.
ParseScalar(n) ==
    IF n.style = "quoted" THEN Str(n.text)
    ELSE CASE ResolvePlain(n.text) = "bool" -> Bool(n.text \in YamlTrue)
           [] ResolvePlain(n.text) = "null" -> NoneV
           [] ResolvePlain(n.text) = "int" -> IntV(n.text)
           [] OTHER -> Str(n.text)

ParseNode(n) ==
    IF n.t = "seq"
    THEN ListV([i \in 1..Len(n.items) |-> ParseScalar(n.items[i])])
    ELSE ParseScalar(n)

\* ------------------------------------------------------------ file contents

\* A file at a path: missing, present but unreadable or not YAML, an empty
\* document, a document whose root is a scalar or a sequence, or a mapping.
NoEntries == [k \in {} |-> Scalar("plain", "")]
Missing == [kind |-> "missing", root |-> Scalar("plain", ""), entries |-> NoEntries]
Unparsable == [kind |-> "unparsable", root |-> Scalar("plain", ""), entries |-> NoEntries]
EmptyDoc == [kind |-> "empty", root |-> Scalar("plain", ""), entries |-> NoEntries]
RootDoc(n) == [kind |-> "root", root |-> n, entries |-> NoEntries]
MapDoc(e) == [kind |-> "map", root |-> Scalar("plain", ""), entries |-> e]

\* ------------------------------------------------------------ CaptainFile

Fields(cls) ==
    IF cls = "CaptainConfig" THEN {"theme", "auto_update", "recent_files"}
    ELSE {"active_projects"}

Default(cls, f) ==
    CASE f = "theme" -> Str("light")
      [] f = "auto_update" -> Bool(TRUE)
      [] OTHER -> ListV(<<>>)

Defaults(cls) == [f \in Fields(cls) |-> Default(cls, f)]

\* CaptainFile.load: the result is the instance, or the exception raised.
Load(cls, file) ==
    IF file.kind = "missing"
    THEN [status |-> "ok", warned |-> FALSE, rec |-> Defaults(cls)]
    ELSE IF file.kind = "unparsable"
    THEN [status |-> "ok", warned |-> TRUE, rec |-> Defaults(cls)]
    ELSE LET isDict == \/ file.kind = "map"
                       \/ file.kind = "empty"
                       \/ (file.kind = "root" /\ ~Truthy(ParseNode(file.root)))
             keys == IF file.kind = "map" THEN DOMAIN file.entries ELSE {}
         IN IF isDict
            THEN [status |-> "ok", warned |-> FALSE,
                  rec |-> [f \in Fields(cls) |->
                             IF f \in keys THEN ParseNode(file.entries[f])
                             ELSE Default(cls, f)]]
            ELSE [status |-> "AttributeError", warned |-> FALSE, rec |-> Defaults(cls)]

\* CaptainFile.save: the file's content afterwards.  open("w") truncates the
\* file; safe_dump represents the whole record before it writes anything.
Save(rec) ==
    IF \A f \in DOMAIN rec : Representable(rec[f])
    THEN [file |-> MapDoc([f \in DOMAIN rec |-> DumpNode(rec[f])]), warned |-> FALSE]
    ELSE [file |-> EmptyDoc, warned |-> TRUE]

\* ------------------------------------------------------ project discovery

COMPOSE_FILENAMES == <<"compose.yaml", "compose.yml", "docker-compose.yaml", "docker-compose.yml">>
ComposeNames == {COMPOSE_FILENAMES[i] : i \in 1..Len(COMPOSE_FILENAMES)}

\* Most entries a project directory holds under the recognized filenames.
MaxEntries == 2

\* A child of the root: absent, a non-directory entry, or a directory whose
\* recognized filenames are each absent, a regular file or a directory.
NoFiles == [f \in ComposeNames |-> "absent"]
NoChild == [kind |-> "none", files |-> NoFiles]
FileChild == [kind |-> "file", files |-> NoFiles]
DirChild(files) == [kind |-> "dir", files |-> files]
DirContents ==
    {c \in [ComposeNames -> {"absent", "file", "dir"}] :
        Cardinality({f \in ComposeNames : c[f] # "absent"}) <= MaxEntries}
Children == {NoChild, FileChild} \cup {DirChild(c) : c \in DirContents}

\* sorted(): insertion sort on the names' lexicographic rank.
Insert(x, s) ==
    LET k == Cardinality({i \in 1..Len(s) : Rank(s[i]) <= Rank(x)})
    IN SubSeq(s, 1, k) \o <<x>> \o SubSeq(s, k + 1, Len(s))
RECURSIVE Sorted(_)
Sorted(s) == IF s = <<>> THEN <<>> ELSE Insert(s[Len(s)], Sorted(SubSeq(s, 1, Len(s) - 1)))

\* root.iterdir(): the entries of the root in any order the OS lists them.
IterDir(t) ==
    LET present == {n \in Names : t[n].kind # "none"}
    IN {s \in [1..Cardinality(present) -> present] :
            \A i, j \in DOMAIN s : i # j => s[i] # s[j]}

\* Mutant of FirstCompose: candidate.exists() without candidate.is_file().
FirstComposeExists(files) ==
    LET hits == {i \in 1..Len(COMPOSE_FILENAMES) : files[COMPOSE_FILENAMES[i]] # "absent"}
    IN IF hits = {} THEN ""
       ELSE COMPOSE_FILENAMES[CHOOSE i \in hits : \A j \in hits : i <= j]

\* The inner loop over COMPOSE_FILENAMES: candidate.exists() and
\* candidate.is_file(), first hit wins ("" when there is none).
FirstCompose(files) ==
    LET hits == {i \in 1..Len(COMPOSE_FILENAMES) : files[COMPOSE_FILENAMES[i]] = "file"}
    IN IF hits = {} THEN ""
       ELSE COMPOSE_FILENAMES[CHOOSE i \in hits : \A j \in hits : i <= j]

\* The order in which discover_projects visits the listing.
ScanOrder(listing) == Sorted(listing)

\* The outer loop, over the children in scan order: the dict as the list of
\* its items in insertion order.
RECURSIVE Scan(_, _)
Scan(t, order) ==
    IF order = <<>> THEN <<>>
    ELSE LET child == t[order[1]]
             rest == Scan(t, Tail(order))
         IN IF child.kind # "dir" \/ FirstCompose(child.files) = ""
            THEN rest
            ELSE <<[name |-> order[1], file |-> FirstCompose(child.files)]>> \o rest

discover_projects(exists, t, listing) ==
    IF ~exists THEN <<>> ELSE Scan(t, ScanOrder(listing))

ProjectNames(ps) == {ps[i].name : i \in 1..Len(ps)}
ComposeFile(ps, n) == ps[CHOOSE i \in 1..Len(ps) : ps[i].name = n].file

\* -------------------------------------------------------- compose runner

\* How the external `docker compose` process ends: it exits with a code, or
\* it could not be launched at all.
ExtOutcomes ==
    {[kind |-> "exit", code |-> c] : c \in 0..MaxRc} \cup {[kind |-> "oserror", code |-> 0]}

\* Mutant of docker_compose_run: every failure reported as 1.
RunFailureIsOne(ext) == IF ext.kind = "exit" /\ ext.code = 0 THEN 0 ELSE 1

\* DockerCompose._docker_compose_run: sh raises ErrorReturnCode for a
\* non-zero exit, any other exception is coerced to 1.
docker_compose_run(ext) ==
    IF ext.kind = "exit" /\ ext.code = 0 THEN 0
    ELSE IF ext.kind = "exit" THEN ext.code
    ELSE 1

\* ----------------------------------------------------------------- state

VARIABLES
    file,        \* SpecFile: the content of the file at `path`
    inst,        \* SpecFile: the instance last saved to it
    loaded,      \* SpecFile: the result of the last load
    fop,         \* SpecFile: the last operation
    rootExists,  \* whether the projects folder exists
    tree,        \* the children of the projects folder
    projects,    \* the dict discover_projects returned, as its item list
    dop,         \* SpecDiscover: whether discover_projects has run
    envVar,      \* SpecStartup: the environment variable
    configFile,  \* SpecStartup: the content of the config file
    pathKinds,   \* SpecStartup: what each candidate folder path is on disk
    startup,     \* SpecStartup: how the module-level code ended
    dataFile,    \* the content of CaptainData.DEFAULT_PATH
    proc,        \* the running (or last) process: its command, position and locals
    hist         \* history of that process: what it invoked and was answered

fileVars == <<file, inst, loaded, fop>>
fsVars == <<rootExists, tree>>
startVars == <<envVar, configFile, pathKinds, startup>>
procVars == <<proc, hist>>
vars == <<fileVars, fsVars, projects, dop, startVars, dataFile, procVars>>

NoProcess == [action |-> "", name |-> "", file |-> ""]
NoAnswer == [asked |-> FALSE, confirmed |-> FALSE, sel |-> <<>>]
NoExt == [kind |-> "", code |-> 0]
NoInst == [cls |-> "", f |-> Defaults("CaptainData")]
NoLoad == [cls |-> "", status |-> "", warned |-> FALSE, rec |-> Defaults("CaptainData")]
NoStartup == [done |-> FALSE, exit |-> -1, raised |-> "", folder |-> ""]
NoEnv == [set |-> FALSE, value |-> ""]

FileIdle == file = Missing /\ inst = NoInst /\ loaded = NoLoad /\ fop = "init"
StartIdle ==
    /\ envVar = NoEnv /\ configFile = Missing
    /\ pathKinds = <<>> /\ startup = NoStartup
\* A process before its command starts.  exitStatus is -1 while it runs;
\* raised names the uncaught exception that ended it.
NoProc ==
    [cmd |-> "", pc |-> "idle", arg |-> "", active |-> <<>>, idx |-> 0, exit_code |-> 0,
     running |-> NoProcess, exitStatus |-> -1, raised |-> "", rows |-> <<>>]
\* invocations: every compose invocation the process started; completed: how
\* many returned; results: the per-project results of the loop; answer: what
\* the prompt returned; lastExt, lastRc: the last external outcome and what
\* the runner returned for it; before: the data file when the process began.
NoHist ==
    [invocations |-> <<>>, completed |-> 0, results |-> <<>>, answer |-> NoAnswer,
     lastExt |-> NoExt, lastRc |-> 0, before |-> Missing]
ProcIdle == proc = NoProc /\ hist = NoHist

\* --------------------------------------------------------------- SpecFile

FileKeys == {"active_projects", "theme", "auto_update", "projects_folder"}
NodePool == {Scalar("plain", "dark"), Scalar("plain", "true"), SeqNode(<<Scalar("plain", "app")>>)}
FileContents ==
    {Missing, Unparsable, EmptyDoc,
     RootDoc(Scalar("plain", "dark")), RootDoc(Scalar("quoted", "true")),
     RootDoc(Scalar("plain", "7")), RootDoc(SeqNode(<<Scalar("plain", "app")>>))}
    \cup {MapDoc(e) : e \in UNION {[K -> NodePool] : K \in SUBSET FileKeys}}

SeqsUpTo(S, n) == UNION {[1..k -> S] : k \in 0..n}
Themes == {"light", "dark", "on"}
PathPool == {"/srv/a", "/srv/b"}
DataInst(names) ==
    [cls |-> "CaptainData",
     f |-> [active_projects |-> ListV([i \in 1..Len(names) |-> Str(names[i])])]]
ConfigInst(theme, auto, recent) ==
    [cls |-> "CaptainConfig",
     f |-> [theme |-> Str(theme), auto_update |-> Bool(auto),
            recent_files |-> ListV([i \in 1..Len(recent) |-> PathV(recent[i])])]]
\* Instances with valid field values: the annotated types.
Instances ==
    {DataInst(ns) : ns \in SeqsUpTo(Names, MaxList)}
    \cup {ConfigInst(t, a, r) : t \in Themes, a \in BOOLEAN, r \in SeqsUpTo(PathPool, MaxList)}

FileInit ==
    /\ file \in FileContents /\ inst = NoInst /\ loaded = NoLoad /\ fop = "init"
    /\ rootExists = TRUE /\ tree = [n \in Names |-> NoChild] /\ projects = <<>> /\ dop = FALSE
    /\ StartIdle /\ dataFile = Missing /\ ProcIdle

\* instance.save(path)
FSave(i) ==
    /\ file' = Save(i.f).file
    /\ inst' = i
    /\ loaded' = NoLoad
    /\ fop' = "save"
    /\ UNCHANGED <<fsVars, projects, dop, startVars, dataFile, procVars>>

\* cls.load(path)
FLoad(cls) ==
    /\ loaded' = [cls |-> cls, status |-> Load(cls, file).status,
                  warned |-> Load(cls, file).warned, rec |-> Load(cls, file).rec]
    /\ fop' = "load"
    /\ UNCHANGED <<file, inst, fsVars, projects, dop, startVars, dataFile, procVars>>

FileNext ==
    \/ \E i \in Instances : FSave(i)
    \/ \E cls \in {"CaptainConfig", "CaptainData"} : FLoad(cls)

SpecFile == FileInit /\ [][FileNext]_vars

\* ----------------------------------------------------------- SpecDiscover

DiscoverInit ==
    /\ rootExists \in BOOLEAN
    /\ tree \in [Names -> Children]
    /\ (~rootExists => tree = [n \in Names |-> NoChild])
    /\ projects = <<>> /\ dop = FALSE
    /\ FileIdle /\ StartIdle /\ dataFile = Missing /\ ProcIdle

Discover ==
    /\ ~dop
    /\ \E listing \in IterDir(tree) : projects' = discover_projects(rootExists, tree, listing)
    /\ dop' = TRUE
    /\ UNCHANGED <<fileVars, fsVars, startVars, dataFile, procVars>>

DiscoverNext == Discover

SpecDiscover == DiscoverInit /\ [][DiscoverNext]_vars

\* ------------------------------------------------------------ SpecStartup

\* Attributes found on the class CaptainConfig (its own and CaptainFile's;
\* the dataclass decorator removes a default_factory field from the class)
\* and on an instance of it.
ClassAttrs == {"DEFAULT_PATH", "theme", "auto_update", "load", "save", "_ensure_dataclass"}
InstanceAttrs == ClassAttrs \cup Fields("CaptainConfig")

\* The module-level code of main.py, from CaptainConfig.load() to mkdir.
StartupRun(env, cfgFile, kinds) ==
    LET cfg == Load("CaptainConfig", cfgFile)
        fromEnv == IF env.set THEN env.value ELSE ""
        folder == IF fromEnv # "" THEN fromEnv ELSE cfg.rec["projects_folder"].s
    IN IF cfg.status # "ok"
       THEN [done |-> TRUE, exit |-> 1, raised |-> cfg.status, folder |-> ""]
       ELSE IF "ENVIROMENT" \notin ClassAttrs
       THEN [done |-> TRUE, exit |-> 1, raised |-> "AttributeError", folder |-> ""]
       ELSE IF fromEnv = "" /\ "projects_folder" \notin InstanceAttrs
       THEN [done |-> TRUE, exit |-> 1, raised |-> "AttributeError", folder |-> ""]
       ELSE IF folder = ""
       THEN [done |-> TRUE, exit |-> 1, raised |-> "", folder |-> ""]
       ELSE IF kinds[folder] = "missing"
       THEN [done |-> TRUE, exit |-> 2, raised |-> "", folder |-> folder]
       ELSE IF kinds[folder] = "file"
       THEN [done |-> TRUE, exit |-> 1, raised |-> "FileExistsError", folder |-> folder]
       ELSE [done |-> TRUE, exit |-> -1, raised |-> "", folder |-> folder]

EnvValues == {NoEnv} \cup {[set |-> TRUE, value |-> v] : v \in {""} \cup PathPool}
ConfigFiles ==
    {Missing, Unparsable, EmptyDoc}
    \cup {MapDoc(e) : e \in UNION {[K -> {Scalar("plain", q) : q \in PathPool}] :
                                   K \in SUBSET {"theme", "projects_folder"}}}

StartupInit ==
    /\ envVar \in EnvValues
    /\ configFile \in ConfigFiles
    /\ pathKinds \in [PathPool -> {"missing", "dir", "file"}]
    /\ startup = NoStartup
    /\ rootExists = TRUE /\ tree = [n \in Names |-> NoChild] /\ projects = <<>> /\ dop = FALSE
    /\ FileIdle /\ dataFile = Missing /\ ProcIdle

Startup ==
    /\ ~startup.done
    /\ startup' = StartupRun(envVar, configFile, pathKinds)
    /\ UNCHANGED <<fileVars, fsVars, projects, dop, envVar, configFile, pathKinds,
                   dataFile, procVars>>

StartupNext == Startup

SpecStartup == StartupInit /\ [][StartupNext]_vars

\* ------------------------------------------------------------------ Spec

\* `name in captain_data.active_projects` / `name in projects`
InList(n, items) == \E i \in 1..Len(items) : items[i] = Str(n)
InProjects(v, ps) == v.ty = "str" /\ v.s \in ProjectNames(ps)

\* Mutant of Or: the latest result overwrites the recorded one.
OrOverwrite(a, b) == b

\* `exit_code or rc`
Or(a, b) == IF a # 0 THEN a ELSE b

\* Mutant of Advance: the loop stops at the first non-zero result.
AdvanceBreak(i, n, rc) == IF rc # 0 THEN n + 1 ELSE i + 1

\* The for loop of rally / abandon moves to the next name whatever the
\* result of the current one (n is the length of the list).
Advance(i, n, rc) == i + 1

\* The compose verb behind each command.
ActionOf(c) ==
    CASE c \in {"start", "rally"} -> "up"
      [] c \in {"stop", "abandon"} -> "down"
      [] OTHER -> "restart"

\* Mutant of require_project_exists: the generic failure code.
RequireExitOne(project, ps) ==
    IF project \notin ProjectNames(ps)
    THEN [ok |-> FALSE, code |-> 1, file |-> ""]
    ELSE [ok |-> TRUE, code |-> 0, file |-> ComposeFile(ps, project)]

\* _require_project_exists: the compose file, or typer.Exit(code=2).
require_project_exists(project, ps) ==
    IF project \notin ProjectNames(ps)
    THEN [ok |-> FALSE, code |-> 2, file |-> ""]
    ELSE [ok |-> TRUE, code |-> 0, file |-> ComposeFile(ps, project)]

\* DockerCompose.get_running_projects on what `docker compose ls` gave: the
\* names reported running, or nothing when the call or the parse failed.
LsOutcomes == {[ok |-> FALSE, up |-> {}]} \cup {[ok |-> TRUE, up |-> r] : r \in SUBSET Names}
get_running_projects(ls) == IF ls.ok THEN ls.up ELSE {}

\* What questionary.checkbox(...).ask() returns for the choices `names`:
\* None on cancel, else the selected values, each choice at most once.
Answers(names) ==
    LET all == {names[i] : i \in 1..Len(names)}
    IN {[asked |-> TRUE, confirmed |-> FALSE, sel |-> <<>>]} \cup
       {[asked |-> TRUE, confirmed |-> TRUE, sel |-> sel] :
            sel \in {q \in SeqsUpTo(all, Len(names)) :
                        \A i, j \in DOMAIN q : i # j => q[i] # q[j]}}

\* Mutant of manage_persist: the selection saved in the prompt's order.
ManagePersistUnsorted(ans, data) ==
    IF ~ans.confirmed THEN data
    ELSE Save([active_projects |-> ListV([i \in 1..Len(ans.sel) |-> Str(ans.sel[i])])]).file

\* Mutant of manage_persist: a cancelled prompt saved as an empty selection.
ManagePersistOnCancel(ans, data) ==
    Save([active_projects |-> ListV([i \in 1..Len(ans.sel) |-> Str(Sorted(ans.sel)[i])])]).file

\* The tail of manage: the data file after the prompt returned `ans`.
manage_persist(ans, data) ==
    IF ~ans.confirmed THEN data
    ELSE Save([active_projects |->
                  ListV([i \in 1..Len(ans.sel) |-> Str(Sorted(ans.sel)[i])])]).file

\* The keys of the dict, in its order.
Keys(ps) == [i \in 1..Len(ps) |-> ps[i].name]

\* Projects folders of the command layer: per name no entry, a plain file, a
\* directory with compose.yaml, or a directory whose compose.yml is itself
\* a directory beside a docker-compose.yml file.
CmdChildren ==
    {NoChild, FileChild,
     DirChild([NoFiles EXCEPT !["compose.yaml"] = "file"]),
     DirChild([NoFiles EXCEPT !["compose.yml"] = "dir", !["docker-compose.yml"] = "file"])}

\* Data files of the command layer: none yet, or what manage wrote.
SortedSeqOf(S) ==
    Sorted(CHOOSE q \in [1..Cardinality(S) -> S] : \A i, j \in DOMAIN q : i # j => q[i] # q[j])
CmdDataFiles ==
    {Missing} \cup {Save(DataInst(SortedSeqOf(S)).f).file : S \in SUBSET Names}

Init ==
    /\ rootExists = TRUE
    /\ tree \in [Names -> CmdChildren]
    /\ dataFile \in CmdDataFiles
    /\ projects = <<>> /\ dop = FALSE
    /\ FileIdle /\ StartIdle /\ ProcIdle

\* A command starts in a fresh process.
CanStart == proc.pc = "idle"
Uncaught(c, exc) == [NoProc EXCEPT !.cmd = c, !.pc = "done", !.exitStatus = 1, !.raised = exc]
Exited(c, code) == [NoProc EXCEPT !.cmd = c, !.pc = "done", !.exitStatus = code]
Began == [NoHist EXCEPT !.before = dataFile]

\* list
List ==
    /\ CanStart
    /\ \E listing \in IterDir(tree), ls \in LsOutcomes :
        LET ps == discover_projects(rootExists, tree, listing)
            d == Load("CaptainData", dataFile)
            up == get_running_projects(ls)
        IN /\ projects' = ps
           /\ proc' = IF d.status # "ok" THEN Uncaught("list", d.status)
                      ELSE [Exited("list", 0) EXCEPT
                              !.active = d.rec.active_projects.items,
                              !.rows = [i \in 1..Len(ps) |->
                                          [name |-> ps[i].name,
                                           active |-> InList(ps[i].name,
                                                             d.rec.active_projects.items),
                                           running |-> ps[i].name \in up]]]
    /\ hist' = Began
    /\ UNCHANGED <<fileVars, fsVars, dop, startVars, dataFile>>

\* manage
Manage ==
    /\ CanStart
    /\ \E listing \in IterDir(tree) :
        LET ps == discover_projects(rootExists, tree, listing)
            names == Sorted(Keys(ps))
            d == Load("CaptainData", dataFile)
        IN /\ projects' = ps
           /\ IF d.status # "ok"
              THEN /\ proc' = Uncaught("manage", d.status)
                   /\ hist' = Began
                   /\ UNCHANGED dataFile
              ELSE IF names = <<>>
              THEN /\ proc' = [Exited("manage", 1) EXCEPT
                                 !.active = d.rec.active_projects.items]
                   /\ hist' = Began
                   /\ UNCHANGED dataFile
              ELSE \E ans \in Answers(names) :
                   /\ proc' = [Exited("manage", 0) EXCEPT
                                 !.active = d.rec.active_projects.items]
                   /\ hist' = [Began EXCEPT !.answer = ans]
                   /\ dataFile' = manage_persist(ans, dataFile)
    /\ UNCHANGED <<fileVars, fsVars, dop, startVars>>

\* start, stop, restart: up to the blocking runner call
Single(c, project) ==
    /\ CanStart
    /\ \E listing \in IterDir(tree) :
        LET ps == discover_projects(rootExists, tree, listing)
            r == require_project_exists(project, ps)
            call == [action |-> ActionOf(c), name |-> project, file |-> r.file]
        IN /\ projects' = ps
           /\ IF ~r.ok
              THEN /\ proc' = [Exited(c, r.code) EXCEPT !.arg = project]
                   /\ hist' = Began
              ELSE /\ proc' = [NoProc EXCEPT !.cmd = c, !.pc = "wait", !.arg = project,
                                             !.running = call]
                   /\ hist' = [Began EXCEPT !.invocations = <<call>>]
    /\ UNCHANGED <<fileVars, fsVars, dop, startVars, dataFile>>

Start == \E project \in Names : Single("start", project)
Stop == \E project \in Names : Single("stop", project)
Restart == \E project \in Names : Single("restart", project)

\* rally, abandon: up to the loop
Batch(c) ==
    /\ CanStart
    /\ \E listing \in IterDir(tree) :
        LET ps == discover_projects(rootExists, tree, listing)
            d == Load("CaptainData", dataFile)
        IN /\ projects' = ps
           /\ proc' = IF d.status # "ok" THEN Uncaught(c, d.status)
                      ELSE IF d.rec.active_projects.items = <<>> THEN Exited(c, 0)
                      ELSE [NoProc EXCEPT !.cmd = c, !.pc = "loop", !.idx = 1,
                                          !.active = d.rec.active_projects.items]
    /\ hist' = Began
    /\ UNCHANGED <<fileVars, fsVars, dop, startVars, dataFile>>

Rally == Batch("rally")
Abandon == Batch("abandon")

\* One turn of the for loop: the end of the list, a skipped name, or the
\* start of the runner call for the name.
LoopStep ==
    /\ proc.pc = "loop"
    /\ IF proc.idx > Len(proc.active)
       THEN /\ proc' = [proc EXCEPT !.pc = "done", !.exitStatus = proc.exit_code]
            /\ UNCHANGED hist
       ELSE IF ~InProjects(proc.active[proc.idx], projects)
       THEN /\ proc' = [proc EXCEPT !.exit_code = Or(proc.exit_code, 1),
                                    !.idx = Advance(proc.idx, Len(proc.active), 1)]
            /\ hist' = [hist EXCEPT !.results = Append(@, 1)]
       ELSE LET call == [action |-> ActionOf(proc.cmd), name |-> proc.active[proc.idx].s,
                         file |-> ComposeFile(projects, proc.active[proc.idx].s)]
            IN /\ proc' = [proc EXCEPT !.pc = "wait", !.running = call]
               /\ hist' = [hist EXCEPT !.invocations = Append(@, call)]
    /\ UNCHANGED <<fileVars, fsVars, projects, dop, startVars, dataFile>>

\* The external process ends and the runner returns to its caller.
RunnerReturn ==
    /\ proc.pc = "wait"
    /\ \E ext \in ExtOutcomes :
        LET rc == docker_compose_run(ext)
        IN /\ hist' = [hist EXCEPT !.completed = @ + 1, !.lastExt = ext, !.lastRc = rc,
                                   !.results = IF proc.cmd \in {"rally", "abandon"}
                                               THEN Append(@, rc) ELSE @]
           /\ proc' = IF proc.cmd \in {"rally", "abandon"}
                      THEN [proc EXCEPT !.pc = "loop", !.running = NoProcess,
                                        !.exit_code = Or(proc.exit_code, rc),
                                        !.idx = Advance(proc.idx, Len(proc.active), rc)]
                      ELSE [proc EXCEPT !.pc = "done", !.running = NoProcess,
                                        !.exitStatus = rc]
    /\ UNCHANGED <<fileVars, fsVars, projects, dop, startVars, dataFile>>

\* The process ends; the next command runs in a new one, which keeps
\* nothing but the files on disk.
ProcessExit ==
    /\ proc.pc = "done"
    /\ proc' = NoProc
    /\ hist' = NoHist
    /\ projects' = <<>>
    /\ UNCHANGED <<fileVars, fsVars, dop, startVars, dataFile>>

Next ==
    \/ List
    \/ Manage
    \/ Start
    \/ Stop
    \/ Restart
    \/ Rally
    \/ Abandon
    \/ LoopStep
    \/ RunnerReturn
    \/ ProcessExit

Spec == Init /\ [][Next]_vars

\* ------------------------------------------------- claims on SpecDiscover

IndexOf(fname) == CHOOSE i \in 1..Len(COMPOSE_FILENAMES) : COMPOSE_FILENAMES[i] = fname
HasCompose(n) ==
    tree[n].kind = "dir" /\ \E f \in ComposeNames : tree[n].files[f] = "file"

\* C3: discover_projects returns exactly the immediate subdirectories that
\* hold a recognized compose filename as a regular file, each mapped to the
\* first such filename in precedence order, in lexicographic order of the
\* directory names; a nonexistent root yields the empty mapping.
C3_DiscoverExact ==
    dop =>
        IF ~rootExists THEN projects = <<>>
        ELSE /\ ProjectNames(projects) = {n \in Names : HasCompose(n)}
             /\ \A i \in 1..Len(projects) :
                    /\ tree[projects[i].name].files[projects[i].file] = "file"
                    /\ \A j \in 1..(IndexOf(projects[i].file) - 1) :
                           tree[projects[i].name].files[COMPOSE_FILENAMES[j]] # "file"
             /\ \A i, j \in 1..Len(projects) :
                    i < j => Rank(projects[i].name) < Rank(projects[j].name)

\* Two projects found, the first one through its second candidate because
\* the first candidate is a directory, with a later candidate present too.
C3_Witness ==
    /\ dop /\ rootExists /\ Len(projects) = 2
    /\ projects[1].file = "compose.yml"
    /\ tree[projects[1].name].files["compose.yaml"] = "dir"
    /\ projects[2].file = "docker-compose.yml"

\* ----------------------------------------------------- claims on SpecFile

\* C9: load never raises: defaults for a missing file, a warning and the
\* defaults for content that is unparsable or is not a mapping, and for a
\* mapping the record built from the recognized keys only.
C9_LoadNeverRaises ==
    fop = "load" =>
        /\ loaded.status = "ok"
        /\ file.kind = "missing" =>
               loaded.rec = Defaults(loaded.cls) /\ ~loaded.warned
        /\ file.kind \in {"unparsable", "root"} =>
               loaded.rec = Defaults(loaded.cls) /\ loaded.warned
        /\ file.kind = "map" =>
               loaded.rec = [f \in Fields(loaded.cls) |->
                               IF f \in DOMAIN file.entries
                               THEN ParseNode(file.entries[f])
                               ELSE Default(loaded.cls, f)]

\* C8: save followed by load of the same class yields the record saved.
C8_SaveLoadRoundTrip ==
    (fop = "load" /\ inst.cls = loaded.cls) =>
        loaded.status = "ok" /\ loaded.rec = inst.f

\* -------------------------------------------------- claims on SpecStartup

\* The folder the start-up is specified to resolve: the environment
\* variable when set, otherwise the config file's persisted value.
PersistedFolder ==
    IF configFile.kind = "map" /\ "projects_folder" \in DOMAIN configFile.entries
    THEN configFile.entries["projects_folder"].text
    ELSE ""
SpecifiedFolder ==
    IF envVar.set /\ envVar.value # "" THEN envVar.value ELSE PersistedFolder

\* C10: the start-up ends without an uncaught exception; with no folder
\* from the environment or the config it exits 1, with a folder that does
\* not exist it exits 2, and otherwise it proceeds with the resolved folder.
C10_StartupResolvesFolder ==
    startup.done =>
        /\ startup.raised = ""
        /\ SpecifiedFolder = "" => startup.exit = 1
        /\ (SpecifiedFolder # "" /\ pathKinds[SpecifiedFolder] = "missing") =>
               startup.exit = 2
        /\ (SpecifiedFolder # "" /\ pathKinds[SpecifiedFolder] = "dir") =>
               startup.exit = -1 /\ startup.folder = SpecifiedFolder

\* --------------------------------------------------------- claims on Spec

\* The compose file discovery is specified to give for a directory.
ExpectedFile(n) ==
    CHOOSE f \in ComposeNames :
        /\ tree[n].files[f] = "file"
        /\ \A j \in 1..(IndexOf(f) - 1) : tree[n].files[COMPOSE_FILENAMES[j]] # "file"
\* The persisted active-set, in stored order.
PersistedActive == Load("CaptainData", dataFile).rec.active_projects.items
Discovered(v) == v.ty = "str" /\ v.s \in Names /\ HasCompose(v.s)
IsBatch == proc.cmd \in {"rally", "abandon"}
IsSingle == proc.cmd \in {"start", "stop", "restart"}
FirstNonZero(rs) ==
    LET bad == {i \in 1..Len(rs) : rs[i] # 0}
    IN IF bad = {} THEN 0 ELSE rs[CHOOSE i \in bad : \A j \in bad : i <= j]

\* C1: the exit code of rally / abandon is the first non-zero per-project
\* result in stored order, 0 if there is none; a name absent from discovery
\* counts as 1 and the loop still visits every name.
C1_ExitIsFirstNonZero ==
    (proc.pc = "done" /\ IsBatch /\ proc.raised = "") =>
        /\ Len(hist.results) = Len(PersistedActive)
        /\ \A i \in 1..Len(hist.results) :
               ~Discovered(PersistedActive[i]) => hist.results[i] = 1
        /\ proc.exitStatus = FirstNonZero(hist.results)

\* A first project failing with 2, a second one succeeding, exit code 2.
C1_Witness ==
    /\ proc.pc = "done" /\ proc.cmd = "rally"
    /\ hist.results = <<2, 0>> /\ proc.exitStatus = 2

\* The invocations rally / abandon are specified to make.
RECURSIVE ExpectedCalls(_, _)
ExpectedCalls(act, verb) ==
    IF act = <<>> THEN <<>>
    ELSE IF Discovered(act[1])
    THEN <<[action |-> verb, name |-> act[1].s, file |-> ExpectedFile(act[1].s)]>>
         \o ExpectedCalls(Tail(act), verb)
    ELSE ExpectedCalls(Tail(act), verb)
IsPrefix(a, b) == Len(a) <= Len(b) /\ SubSeq(b, 1, Len(a)) = a

\* C2: rally / abandon invoke compose for exactly the active names present
\* in discovery, in stored order, one at a time and each to completion; a
\* failure or a skip never stops the rest; an empty active-set means no
\* invocation and exit code 0.
C2_SerialInvocations ==
    IsBatch =>
        LET want == ExpectedCalls(PersistedActive,
                                  IF proc.cmd = "rally" THEN "up" ELSE "down")
        IN /\ IsPrefix(hist.invocations, want)
           /\ hist.completed = Len(hist.invocations) - (IF proc.pc = "wait" THEN 1 ELSE 0)
           /\ proc.pc = "wait" <=> proc.running # NoProcess
           /\ proc.pc = "wait" => proc.running = hist.invocations[Len(hist.invocations)]
           /\ (proc.pc = "done" /\ proc.raised = "") => hist.invocations = want
           /\ (proc.pc = "done" /\ PersistedActive = <<>>) =>
                  hist.invocations = <<>> /\ proc.exitStatus = 0

\* abandon ran down for two projects although the first one failed.
C2_Witness ==
    /\ proc.pc = "done" /\ proc.cmd = "abandon"
    /\ Len(hist.invocations) = 2 /\ hist.completed = 2
    /\ hist.results[1] # 0

\* C4: start / stop / restart of an undiscovered name exit with 2 and invoke
\* nothing; of a discovered name they make exactly one invocation of their
\* verb on that project's compose file and exit with the runner's code.
C4_SingleProject ==
    IsSingle =>
        IF ~HasCompose(proc.arg)
        THEN proc.pc = "done" /\ proc.exitStatus = 2 /\ hist.invocations = <<>>
        ELSE /\ hist.invocations =
                    <<[action |-> CASE proc.cmd = "start" -> "up"
                                    [] proc.cmd = "stop" -> "down"
                                    [] OTHER -> "restart",
                       name |-> proc.arg, file |-> ExpectedFile(proc.arg)]>>
             /\ proc.pc = "done" =>
                    hist.completed = 1 /\ proc.exitStatus = hist.lastRc

\* start of a name that is no project: exit code 2, nothing invoked.
C4_Witness ==
    /\ proc.pc = "done" /\ proc.cmd = "start"
    /\ tree[proc.arg].kind = "file"
    /\ proc.exitStatus = 2 /\ hist.invocations = <<>>

\* C5: the runner returns 0 exactly when the external process succeeded,
\* the process's own code when that is non-zero, and 1 when the process
\* could not be launched; it raises nothing.
C5_RunnerCodes ==
    hist.completed > 0 =>
        /\ proc.raised = ""
        /\ hist.lastRc = 0 <=> (hist.lastExt.kind = "exit" /\ hist.lastExt.code = 0)
        /\ hist.lastExt.kind = "exit" => hist.lastRc = hist.lastExt.code
        /\ hist.lastExt.kind = "oserror" => hist.lastRc = 1

\* A process that exited with 2, reported as 2.
C5_Witness ==
    /\ hist.completed > 0
    /\ hist.lastExt = [kind |-> "exit", code |-> 2] /\ hist.lastRc = 2

\* C6: a confirmed manage leaves the selection, sorted and without
\* duplicates, as the persisted active-set; a cancelled one leaves the data
\* file as it was and exits 0.
C6_ManageReplaces ==
    (proc.pc = "done" /\ proc.cmd = "manage" /\ hist.answer.asked) =>
        IF hist.answer.confirmed
        THEN /\ dataFile.kind = "map"
             /\ Len(PersistedActive) = Len(hist.answer.sel)
             /\ \A i \in 1..Len(PersistedActive) :
                    /\ PersistedActive[i].ty = "str"
                    /\ \E k \in 1..Len(hist.answer.sel) :
                           hist.answer.sel[k] = PersistedActive[i].s
             /\ \A i, j \in 1..Len(PersistedActive) :
                    i < j => Rank(PersistedActive[i].s) < Rank(PersistedActive[j].s)
        ELSE dataFile = hist.before /\ proc.exitStatus = 0

\* A confirmed selection of "no" alone replaced a set that held "app".
C6_Witness ==
    /\ proc.pc = "done" /\ proc.cmd = "manage"
    /\ hist.answer.confirmed /\ hist.answer.sel = <<"no">>
    /\ InList("app", Load("CaptainData", hist.before).rec.active_projects.items)
    /\ PersistedActive = <<Str("no")>>

\* C7: the data file changes only in a confirmed manage.
C7_OnlyManageWrites ==
    [][dataFile' # dataFile => (proc'.cmd = "manage" /\ hist'.answer.confirmed)]_vars

\* abandon ran two projects, one failing, and the data file is as before.
C7_Witness ==
    /\ proc.pc = "done" /\ proc.cmd = "abandon"
    /\ hist.completed = 2 /\ proc.exitStatus # 0
    /\ dataFile = hist.before /\ dataFile # Missing

====
